---- MODULE Spec2Model ----
(***************************************************************************)
(* Unfoldy: a ten-turn interactive story whose text and images come from   *)
(* two external providers (Gemini first, OpenAI as fallback).              *)
(*                                                                         *)
(* The model covers the game store (gameReducer and the GameProvider       *)
(* effects), the App component's generation cycle (generateTurn, its       *)
(* trigger effect and the Retry button), the story service (prompt         *)
(* builder, response parser, fallback orchestration), the provider clients *)
(* and the serverless proxy handlers.                                      *)
(*                                                                         *)
(* The repository holds three builds of the service layer, and the model   *)
(* holds all three, chosen in Init (config.deployment):                    *)
(*   "direct" the storyService over the clients that call Gemini and       *)
(*            OpenAI from the browser, each behind an API-key check;       *)
(*   "proxy"  the storyService over the production client, which posts to  *)
(*            /api/generate-text and /api/generate-image, where the        *)
(*            handlers try Gemini and then OpenAI; callOpenAIText and      *)
(*            callOpenAIImage are re-exports of the Gemini client;         *)
(*   "dev"    the same client in a development build (IS_DEV), which       *)
(*            calls Gemini directly.                                       *)
(*                                                                         *)
(* Spec plays the game. CallSpec calls buildStoryPrompt, parseResponse and  *)
(* generateImage's prompt prefixing on their own, on story states and      *)
(* texts the short games of Spec do not reach.                             *)
(***************************************************************************)
EXTENDS Integers, Sequences, FiniteSets, TLC

VARIABLES
  state,        \* the reducer's state (useReducer in GameProvider)
  storage,      \* localStorage[STORAGE_KEY]: a saved state, or Absent
  cycles,       \* the generateTurn invocations that have not settled yet
  config,       \* the build, the API keys and the providers of the environment
  call          \* a call of parseResponse or generateImage made on its own

vars == <<state, storage, cycles, config, call>>

\* ---------------------------------------------------------------- strings
\* A JavaScript string is a sequence of tokens: the characters the code
\* inspects one by one, and words whose letters it never looks into.
Q == "\""
BS == "\\"
SP == " "
NL == "\n"
FENCE == "<fence>"
WS == {SP, NL}

Min(a, b) == IF a < b THEN a ELSE b

substring(s, n) == SubSeq(s, 1, Min(Len(s), n))

RECURSIVE trimStart(_)
trimStart(s) == IF s # <<>> /\ Head(s) \in WS THEN trimStart(Tail(s)) ELSE s

RECURSIVE trimEnd(_)
trimEnd(s) ==
  IF s # <<>> /\ s[Len(s)] \in WS THEN trimEnd(SubSeq(s, 1, Len(s) - 1)) ELSE s

trim(s) == trimEnd(trimStart(s))

startsWith(s, p) == Len(p) <= Len(s) /\ SubSeq(s, 1, Len(p)) = p

\* The least index >= i of s holding a token of set T, or 0.
RECURSIVE indexFrom(_, _, _)
indexFrom(s, T, i) ==
  IF i > Len(s) THEN 0
  ELSE IF s[i] \in T THEN i
  ELSE indexFrom(s, T, i + 1)

\* The greatest index <= i of s holding a token of set T, or 0.
RECURSIVE lastIndexFrom(_, _, _)
lastIndexFrom(s, T, i) ==
  IF i < 1 THEN 0
  ELSE IF s[i] \in T THEN i
  ELSE lastIndexFrom(s, T, i - 1)

\* \s* : the index after the whitespace that starts at i.
RECURSIVE skipWs(_, _)
skipWs(s, i) == IF i <= Len(s) /\ s[i] \in WS THEN skipWs(s, i + 1) ELSE i

\* ---------------------------------------------------------------- values
\* A JavaScript value, tagged with its type.
Str(s) == [t |-> "str", v |-> s]
Num(n) == [t |-> "num", v |-> <<n>>]
Arr(a) == [t |-> "arr", v |-> a]
Obj(m) == [t |-> "obj", v |-> m]
Null == [t |-> "null", v |-> <<>>]
Undefined == [t |-> "undefined", v |-> <<>>]

\* ToBoolean
truthy(x) ==
  CASE x.t = "str" -> x.v # <<>>
    [] x.t = "num" -> x.v # <<"0">>
    [] x.t \in {"null", "undefined"} -> FALSE
    [] OTHER -> TRUE

\* a || b
or(a, b) == IF truthy(a) THEN a ELSE b

\* ---------------------------------------------------------------- JSON.parse
NUMBERS == {"0", "7"}
\* what may follow a backslash inside a JSON string, and what it stands for
unescape(c) == CASE c = Q -> Q [] c = BS -> BS [] c = "n" -> NL
ESCAPABLE == {Q, BS, "n"}

Fail == [ok |-> FALSE, val |-> Undefined, next |-> 0]
Got(v, n) == [ok |-> TRUE, val |-> v, next |-> n]

\* The string literal whose opening quote is at i - 1: its characters from i on.
RECURSIVE jsonString(_, _, _)
jsonString(s, i, acc) ==
  IF i > Len(s) THEN Fail
  ELSE IF s[i] = Q THEN Got(Str(acc), i + 1)
  ELSE IF s[i] = NL THEN Fail
  ELSE IF s[i] = BS
    THEN IF i + 1 <= Len(s) /\ s[i + 1] \in ESCAPABLE
           THEN jsonString(s, i + 2, Append(acc, unescape(s[i + 1])))
           ELSE Fail
  ELSE jsonString(s, i + 1, Append(acc, s[i]))

RECURSIVE jsonValue(_, _)
RECURSIVE jsonElements(_, _, _)
RECURSIVE jsonMembers(_, _, _)

\* The value that starts at i (whitespace before it already skipped).
jsonValue(s, i) ==
  IF i > Len(s) THEN Fail
  ELSE IF s[i] = Q THEN jsonString(s, i + 1, <<>>)
  ELSE IF s[i] \in NUMBERS THEN Got(Num(s[i]), i + 1)
  ELSE IF s[i] = "null" THEN Got(Null, i + 1)
  ELSE IF s[i] = "["
    THEN LET j == skipWs(s, i + 1)
         IN IF j <= Len(s) /\ s[j] = "]" THEN Got(Arr(<<>>), j + 1)
            ELSE jsonElements(s, j, <<>>)
  ELSE IF s[i] = "{"
    THEN LET j == skipWs(s, i + 1)
         IN IF j <= Len(s) /\ s[j] = "}" THEN Got(Obj(<<>>), j + 1)
            ELSE jsonMembers(s, j, <<>>)
  ELSE Fail

\* The array whose elements acc are followed by the element e, from the
\* separator at j on.
afterElement(s, acc, e, j) ==
  IF ~e.ok \/ j > Len(s) THEN Fail
  ELSE IF s[j] = "]" THEN Got(Arr(Append(acc, e.val)), j + 1)
  ELSE IF s[j] = "," THEN jsonElements(s, skipWs(s, j + 1), Append(acc, e.val))
  ELSE Fail

\* The elements of an array from i on, up to and including its "]".
jsonElements(s, i, acc) == afterElement(s, acc, jsonValue(s, i), skipWs(s, jsonValue(s, i).next))

\* The object whose members acc are followed by the member k: e, from the
\* separator at j on.
afterMember(s, acc, k, e, j) ==
  IF ~e.ok \/ j > Len(s) THEN Fail
  ELSE IF s[j] = "}" THEN Got(Obj(Append(acc, [key |-> k.val.v, val |-> e.val])), j + 1)
  ELSE IF s[j] = ","
    THEN jsonMembers(s, skipWs(s, j + 1), Append(acc, [key |-> k.val.v, val |-> e.val]))
  ELSE Fail

\* The same, from the ":" expected at c on.
afterKey(s, acc, k, c) ==
  IF ~k.ok \/ c > Len(s) \/ s[c] # ":" THEN Fail
  ELSE afterMember(s, acc, k, jsonValue(s, skipWs(s, c + 1)),
                   skipWs(s, jsonValue(s, skipWs(s, c + 1)).next))

\* The members of an object from i on, up to and including its "}".
jsonMembers(s, i, acc) ==
  IF i > Len(s) \/ s[i] # Q THEN Fail
  ELSE afterKey(s, acc, jsonString(s, i + 1, <<>>), skipWs(s, jsonString(s, i + 1, <<>>).next))

\* A value e with nothing but whitespace after it.
alone(s, e) == IF e.ok /\ skipWs(s, e.next) > Len(s) THEN e ELSE Fail

\* JSON.parse(s): [ok, val]; ok = FALSE stands for the SyntaxError it throws.
JSONparse(s) == alone(s, jsonValue(s, skipWs(s, 1)))

\* x.name : the property of a parsed value (the last of repeated keys wins).
RECURSIVE lookup(_, _, _)
lookup(m, name, i) ==
  IF i < 1 THEN Undefined
  ELSE IF m[i].key = <<name>> THEN m[i].val
  ELSE lookup(m, name, i - 1)

prop(x, name) == IF x.t = "obj" THEN lookup(x.v, name, Len(x.v)) ELSE Undefined

\* ---------------------------------------------------------------- parseResponse
KEYS == {"narrative", "imagePrompt", "choices"}
CONTINUES == <<"The story continues...">>
GENERIC_CHOICES ==
  <<Str(<<"Continue forward">>), Str(<<"Look around">>), Str(<<"Take a different path">>)>>
NARRATIVE_LIMIT == 500
MAX_CHOICES == 3

None == [found |-> FALSE, s |-> <<>>]
Some(s) == [found |-> TRUE, s |-> s]

\* /```(?:json)?\s*([\s\S]*?)```/ : the capture of the first match.
fenceMatch(s) ==
  LET i == indexFrom(s, {FENCE}, 1)
      a == IF i + 1 <= Len(s) /\ s[i + 1] = "json" THEN i + 2 ELSE i + 1
      p == skipWs(s, a)
      j == indexFrom(s, {FENCE}, p)
  IN IF i = 0 \/ j = 0 THEN None ELSE Some(SubSeq(s, p, j - 1))

\* /\{[\s\S]*\}/ : from the first "{" to the last "}".
objectMatch(s) ==
  LET i == indexFrom(s, {"{"}, 1)
      j == lastIndexFrom(s, {"}"}, Len(s))
  IN IF i = 0 \/ j < i THEN None ELSE Some(SubSeq(s, i, j))

at(s, i) == IF i >= 1 /\ i <= Len(s) THEN s[i] ELSE "<none>"

\* "name"\s*:\s*<open> matched at i: the index after <open>, or 0.
keyAt(s, i, name, open) ==
  IF at(s, i) = Q /\ at(s, i + 1) = name /\ at(s, i + 2) = Q
  THEN LET c == skipWs(s, i + 3)
           d == skipWs(s, c + 1)
       IN IF at(s, c) = ":" /\ at(s, d) = open THEN d + 1 ELSE 0
  ELSE 0

\* "\s*(?:,\s*"(?:narrative|imagePrompt|choices)|\s*\}|\s*$) matched at e.
fieldCloses(s, e) ==
  /\ at(s, e) = Q
  /\ LET k == skipWs(s, e + 1)
         m == skipWs(s, k + 1)
     IN \/ at(s, k) = "," /\ at(s, m) = Q /\ at(s, m + 1) \in KEYS
        \/ at(s, k) = "}"
        \/ k > Len(s)

RECURSIVE leastClose(_, _)
leastClose(s, e) ==
  IF e > Len(s) THEN 0
  ELSE IF fieldCloses(s, e) THEN e
  ELSE leastClose(s, e + 1)

RECURSIVE fieldFrom(_, _, _)
fieldFrom(s, name, i) ==
  IF i > Len(s) THEN None
  ELSE LET p == keyAt(s, i, name, Q)
           e == IF p = 0 THEN 0 ELSE leastClose(s, p)
       IN IF e = 0 THEN fieldFrom(s, name, i + 1)
          ELSE Some(trim(SubSeq(s, p, e - 1)))

\* extractField: the trimmed capture, or not found (null).
extractField(text, fieldName) == fieldFrom(text, fieldName, 1)

\* /"([^"]+)"/g over the array's text: every capture, trimmed.
RECURSIVE quotedItems(_, _, _)
quotedItems(c, pos, acc) ==
  LET a == indexFrom(c, {Q}, pos)
      b == IF a = 0 THEN 0 ELSE indexFrom(c, {Q}, a + 1)
  IN IF b = 0 THEN acc
     ELSE IF b = a + 1 THEN quotedItems(c, a + 1, acc)
     ELSE quotedItems(c, b + 1, Append(acc, Str(trim(SubSeq(c, a + 1, b - 1)))))

RECURSIVE choicesFrom(_, _)
choicesFrom(s, i) ==
  IF i > Len(s) THEN <<>>
  ELSE LET p == keyAt(s, i, "choices", "[")
           e == IF p = 0 THEN 0 ELSE indexFrom(s, {"]"}, p)
       IN IF e = 0 THEN choicesFrom(s, i + 1)
          ELSE substring(quotedItems(SubSeq(s, p, e - 1), 1, <<>>), MAX_CHOICES)

extractChoices(text) == choicesFrom(text, 1)

\* (?<=:\s*") holds at st.
RECURSIVE backWs(_, _)
backWs(s, i) == IF i >= 1 /\ s[i] \in WS THEN backWs(s, i - 1) ELSE i

valueOpens(s, st) == at(s, st - 1) = Q /\ at(s, backWs(s, st - 2)) = ":"

\* (?="\s*[,}]) holds at e.
valueCloses(s, e) == at(s, e) = Q /\ at(s, skipWs(s, e + 1)) \in {",", "}"}

RECURSIVE leastValueClose(_, _)
leastValueClose(s, e) ==
  IF e > Len(s) THEN 0
  ELSE IF valueCloses(s, e) THEN e
  ELSE leastValueClose(s, e + 1)

\* match.replace(/(?<!\\)"/g, '\\"')
RECURSIVE escapeQuotes(_, _, _)
escapeQuotes(m, i, acc) ==
  IF i > Len(m) THEN acc
  ELSE IF m[i] = Q /\ at(m, i - 1) # BS
    THEN escapeQuotes(m, i + 1, acc \o <<BS, Q>>)
  ELSE escapeQuotes(m, i + 1, Append(acc, m[i]))

\* jsonStr.replace(/(?<=:\s*")([\s\S]*?)(?="\s*[,}])/g, ...): pos is the regex's
\* lastIndex, done the index of the first character not yet copied.
RECURSIVE repairFrom(_, _, _, _)
repairFrom(s, pos, done, acc) ==
  IF pos > Len(s) + 1 THEN acc \o SubSeq(s, done, Len(s))
  ELSE LET e == IF valueOpens(s, pos) THEN leastValueClose(s, pos) ELSE 0
       IN IF e = 0 THEN repairFrom(s, pos + 1, done, acc)
          ELSE repairFrom(s, IF e = pos THEN e + 1 ELSE e, e,
                 acc \o SubSeq(s, done, pos - 1)
                     \o escapeQuotes(SubSeq(s, pos, e - 1), 1, <<>>))

repair(jsonStr) == repairFrom(jsonStr, 1, 1, <<>>)

\* rawText.replace(/[{}"]/g, '')
stripBraceQuote(s) == SelectSeq(s, LAMBDA c : c \notin {"{", "}", Q})

\* A record that keeps every choice of the parsed object: C26 must tell it
\* from fromParsed.
fromParsed_allChoices(parsed) ==
  [narrative |-> or(prop(parsed, "narrative"), Str(CONTINUES)),
   imagePrompt |-> or(prop(parsed, "imagePrompt"), Str(<<>>)),
   choices |-> IF prop(parsed, "choices").t = "arr" THEN prop(parsed, "choices").v
               ELSE <<>>]

\* The record built from a parsed object (strategies 1 and 3).
fromParsed(parsed) ==
  [narrative |-> or(prop(parsed, "narrative"), Str(CONTINUES)),
   imagePrompt |-> or(prop(parsed, "imagePrompt"), Str(<<>>)),
   choices |-> IF prop(parsed, "choices").t = "arr"
                 THEN substring(prop(parsed, "choices").v, MAX_CHOICES)
                 ELSE <<>>]

\* Reading a property of null throws a TypeError, which the try block catches.
usable(p) == p.ok /\ p.val.t # "null"

narrowed(rawText) ==
  LET t == trim(rawText)
      f == fenceMatch(t)
      u == IF f.found THEN trim(f.s) ELSE t
      o == objectMatch(u)
  IN IF o.found THEN o.s ELSE u

\* The four strategies of parseResponse in their order, each given what it
\* works from; [stage, result] names the one that returned.
strategies(rawText, direct, narrative, imagePrompt, choices, repaired) ==
  IF usable(direct) THEN [stage |-> "direct", result |-> fromParsed(direct.val)]
  ELSE IF narrative.found /\ narrative.s # <<>>
    THEN [stage |-> "regex",
          result |-> [narrative |-> Str(narrative.s),
                      imagePrompt |-> Str(IF imagePrompt.found THEN imagePrompt.s ELSE <<>>),
                      choices |-> choices]]
  ELSE IF usable(repaired)
    THEN [stage |-> "repair", result |-> fromParsed(repaired.val)]
  ELSE [stage |-> "lastResort",
        result |-> [narrative |-> Str(substring(stripBraceQuote(rawText), NARRATIVE_LIMIT)),
                    imagePrompt |-> Str(<<>>),
                    choices |-> GENERIC_CHOICES]]

parseFrom(rawText, jsonStr) ==
  strategies(rawText, JSONparse(jsonStr), extractField(jsonStr, "narrative"),
             extractField(jsonStr, "imagePrompt"), extractChoices(jsonStr),
             JSONparse(repair(jsonStr)))

\* parseResponse with the strategy that returned.
parseStaged(rawText) == parseFrom(rawText, narrowed(rawText))

parseResponse(rawText) == parseStaged(rawText).result

\* ---------------------------------------------------------------- styleConfig
\* The turn limit. The source sets 10; the model plays shorter stories.
MAX_TURNS == 2

\* Two of the six genre cards.
GENRES ==
  { [id |-> "noir", name |-> <<"Noir Mystery">>,
     artStylePrompt |-> <<"Black and white", "film noir">>, color |-> "#b0bec5"],
    [id |-> "cyberpunk", name |-> <<"Cyberpunk">>,
     artStylePrompt |-> <<"Digital art", "neon palette">>, color |-> "#e040fb"] }

\* Two of the three language labels of the selector.
LANGUAGES == {"English", "Korean"}

\* The selections played on the menu: a language, then a genre card.
SELECTIONS ==
  {[language |-> "English", genreId |-> "noir"], [language |-> "Korean", genreId |-> "cyberpunk"]}

PACING ==
  [t \in 1..10 |->
     CASE t = 1 -> <<"Introduction: Set the scene and introduce the protagonist.">>
       [] t = 2 -> <<"Rising Action: Introduce the first challenge or mystery.">>
       [] t = 3 -> <<"Rising Action: Deepen the conflict.">>
       [] t = 4 -> <<"Rising Action: Raise the stakes.">>
       [] t = 5 -> <<"Rising Action: Build tension.">>
       [] t = 6 -> <<"Rising Action: The situation becomes dire.">>
       [] t = 7 -> <<"CLIMAX: This is the turning point!">>
       [] t = 8 -> <<"Falling Action: The aftermath of the climax.">>
       [] t = 9 -> <<"Resolution Setup: Tie up loose threads.">>
       [] t = 10 -> <<"CONCLUSION: Deliver the ending.">>]

\* ---------------------------------------------------------------- storyService: prompt
\* String(x) for the values a template literal interpolates.
toStr(x) ==
  CASE x.t = "str" -> x.v
    [] x.t = "num" -> x.v
    [] x.t = "null" -> <<"null">>
    [] OTHER -> <<"[object]">>

BAR == "=================================="

\* A history context that renders the most recent turn only: C32 must tell it
\* from historyEntries.
historyEntries_lastOnly(history, i) ==
  <<"--- Turn ", ToString(Len(history)), " ---", NL>> \o toStr(history[Len(history)].narrative)
  \o (IF truthy(history[Len(history)].choiceMade)
        THEN <<NL, NL, "The player chose: ", Q>> \o toStr(history[Len(history)].choiceMade)
             \o <<Q>>
        ELSE <<>>)

RECURSIVE historyEntries(_, _)
historyEntries(history, i) ==
  IF i > Len(history) THEN <<>>
  ELSE LET h == history[i]
           entry == <<"--- Turn ", ToString(i), " ---", NL>> \o toStr(h.narrative)
                    \o (IF truthy(h.choiceMade)
                          THEN <<NL, NL, "The player chose: ", Q>> \o toStr(h.choiceMade) \o <<Q>>
                          ELSE <<>>)
       IN entry \o (IF i < Len(history) THEN <<NL, NL>> ELSE <<>>)
                \o historyEntries(history, i + 1)

BEGINNING == <<"(No previous turns - this is the very beginning of the story.)">>

\* A pacing instruction that takes the nearest row of the table for a turn
\* outside it: C33 must tell it from pacingInstruction.
pacingInstruction_nearestRow(storyState) ==
  IF storyState.currentTurn < 1 THEN PACING[1]
  ELSE IF storyState.currentTurn > 10 THEN PACING[10]
  ELSE PACING[storyState.currentTurn]

\* A pacing instruction that names the session's language: C39 must tell it
\* from pacingInstruction.
pacingInstruction_inLanguage(storyState) ==
  (IF storyState.currentTurn \in DOMAIN PACING THEN PACING[storyState.currentTurn]
   ELSE <<>>) \o <<" Write in ", storyState.language>>

\* PACING[currentTurn] || ''
pacingInstruction(storyState) ==
  IF storyState.currentTurn \in DOMAIN PACING THEN PACING[storyState.currentTurn] ELSE <<>>

\* A final turn recognised only beyond maxTurns: C31 must tell it from
\* isFinalTurn.
isFinalTurn_beyondMax(storyState) == storyState.currentTurn > storyState.maxTurns

isFinalTurn(storyState) == storyState.currentTurn >= storyState.maxTurns

buildStoryPrompt(storyState) ==
  LET currentTurn == storyState.currentTurn
      maxTurns == storyState.maxTurns
      genre == storyState.genre
      artStylePrompt == storyState.artStylePrompt
      history == storyState.history
      historyContext == IF Len(history) > 0 THEN historyEntries(history, 1) ELSE BEGINNING
      lastChoice ==
        IF Len(history) > 0 /\ truthy(history[Len(history)].choiceMade)
          THEN <<NL, NL, "**IMPORTANT - The player just chose:** ", Q>>
               \o toStr(history[Len(history)].choiceMade)
               \o <<Q, NL, "Your next story segment MUST directly continue from this choice.">>
          ELSE <<>>
  IN <<"You are a masterful interactive fiction Storytelling AI.", NL, NL, "**Genre:** ">>
     \o genre \o <<NL, "**Visual Style:** ">> \o artStylePrompt
     \o <<NL, "**Current Turn:** ", ToString(currentTurn), " of ", ToString(maxTurns), NL,
          "**Pacing Instruction:** ">> \o pacingInstruction(storyState)
     \o <<NL, NL, BAR, NL, "COMPLETE STORY SO FAR (you must continue from this):", NL, BAR, NL>>
     \o historyContext \o <<NL, BAR, NL>> \o lastChoice
     \o <<NL, NL, "**Your Task for Turn ", ToString(currentTurn), ":**", NL,
          "1. Write the next story segment that DIRECTLY continues the narrative above.", NL,
          "2. Create an image prompt for this scene. It MUST begin with the exact phrase: ", Q>>
     \o artStylePrompt \o <<Q, " followed by a detailed scene description.", NL>>
     \o (IF isFinalTurn(storyState)
           THEN <<"3. This is the FINAL turn. Do NOT provide any choices.">>
           ELSE <<"3. Provide exactly 3 distinct, meaningful choices for the player.">>)
     \o <<NL, NL, "**You MUST respond in this exact JSON format:**", NL, "{", NL,
          Q, "narrative", Q, ":", SP, Q, "Your story text here...", Q, ",", NL,
          Q, "imagePrompt", Q, ":", SP, Q>> \o artStylePrompt
     \o <<",", SP, "[detailed scene description]", Q, ",", NL>>
     \o (IF isFinalTurn(storyState)
           THEN <<Q, "choices", Q, ":", SP, "[", "]">>
           ELSE <<Q, "choices", Q, ":", SP, "[", Q, "Choice 1 text", Q, ",", SP,
                  Q, "Choice 2 text", Q, ",", SP, Q, "Choice 3 text", Q, "]">>)
     \o <<NL, "}">>

\* ---------------------------------------------------------------- useGameStore
Absent == [found |-> FALSE]
Saved(s) == [found |-> TRUE, item |-> s]

initialState ==
  [gamePhase |-> "menu", currentTurn |-> 1, maxTurns |-> MAX_TURNS,
   language |-> "English", genre |-> <<>>, genreId |-> "", artStylePrompt |-> <<>>,
   genreColor |-> "#e040fb", history |-> <<>>, currentNarrative |-> Str(<<>>),
   currentImage |-> Null, currentChoices |-> <<>>, isLoading |-> FALSE,
   error |-> Null, usedFallback |-> FALSE]

\* A SET_TURN_CONTENT that takes the session's style from the content's image
\* prompt: C15 tells it from the reducer's.
SET_TURN_CONTENT_restyles(s, payload) ==
  [s EXCEPT
     !.gamePhase = IF s.currentTurn >= s.maxTurns THEN "epilogue" ELSE "playing",
     !.currentNarrative = payload.narrative,
     !.currentImage = payload.image,
     !.currentChoices = payload.choices,
     !.artStylePrompt = payload.narrative.v,
     !.isLoading = FALSE,
     !.error = Null,
     !.usedFallback = payload.usedFallback]

\* case 'SET_TURN_CONTENT' (the payloads dispatched always carry choices and
\* usedFallback, so their || defaults are not taken)
SET_TURN_CONTENT(s, payload) ==
  [s EXCEPT
     !.gamePhase = IF s.currentTurn >= s.maxTurns THEN "epilogue" ELSE "playing",
     !.currentNarrative = payload.narrative,
     !.currentImage = payload.image,
     !.currentChoices = payload.choices,
     !.isLoading = FALSE,
     !.error = Null,
     !.usedFallback = payload.usedFallback]

\* A MAKE_CHOICE that records the choice without moving to the next turn:
\* C8 tells it from the reducer's.
MAKE_CHOICE_sameTurn(s, payload) ==
  [s EXCEPT
     !.history = Append(s.history,
                   [turn |-> s.currentTurn, narrative |-> s.currentNarrative,
                    image |-> s.currentImage, choiceMade |-> payload.choiceText]),
     !.isLoading = TRUE,
     !.gamePhase = "loading",
     !.currentChoices = <<>>]

\* A MAKE_CHOICE that leaves the choices on display: C13 tells it from the
\* reducer's.
MAKE_CHOICE_keepsChoices(s, payload) ==
  [s EXCEPT
     !.history = Append(s.history,
                   [turn |-> s.currentTurn, narrative |-> s.currentNarrative,
                    image |-> s.currentImage, choiceMade |-> payload.choiceText]),
     !.currentTurn = s.currentTurn + 1,
     !.isLoading = TRUE,
     !.gamePhase = "loading"]

\* case 'MAKE_CHOICE'
MAKE_CHOICE(s, payload) ==
  [s EXCEPT
     !.history = Append(s.history,
                   [turn |-> s.currentTurn, narrative |-> s.currentNarrative,
                    image |-> s.currentImage, choiceMade |-> payload.choiceText]),
     !.currentTurn = s.currentTurn + 1,
     !.isLoading = TRUE,
     !.gamePhase = "loading",
     !.currentChoices = <<>>]

\* A SET_ERROR that always falls back to the menu: C7 tells it from the
\* reducer's.
SET_ERROR_toMenu(s, payload) ==
  [s EXCEPT !.error = payload, !.isLoading = FALSE, !.gamePhase = "menu"]

\* case 'SET_ERROR'
SET_ERROR(s, payload) ==
  [s EXCEPT
     !.error = payload,
     !.isLoading = FALSE,
     !.gamePhase = IF Len(s.history) > 0 THEN "playing" ELSE "menu"]

\* A START_GAME that leaves the style of initialState in place: C14 tells it
\* from the reducer's.
START_GAME_noStyle(payload) ==
  [initialState EXCEPT
     !.gamePhase = "loading",
     !.language = payload.language,
     !.genre = payload.genre,
     !.genreId = payload.genreId,
     !.genreColor = payload.color,
     !.currentTurn = 1,
     !.isLoading = TRUE]

\* case 'START_GAME'
START_GAME(payload) ==
  [initialState EXCEPT
     !.gamePhase = "loading",
     !.language = payload.language,
     !.genre = payload.genre,
     !.genreId = payload.genreId,
     !.artStylePrompt = payload.artStylePrompt,
     !.genreColor = payload.color,
     !.currentTurn = 1,
     !.isLoading = TRUE]

gameReducer(s, action) ==
  CASE action.type = "START_GAME" -> START_GAME(action.payload)
    [] action.type = "SET_TURN_CONTENT" -> SET_TURN_CONTENT(s, action.payload)
    [] action.type = "MAKE_CHOICE" -> MAKE_CHOICE(s, action.payload)
    [] action.type = "SET_ERROR" -> SET_ERROR(s, action.payload)
    [] action.type = "RESET_GAME" -> initialState
    [] action.type = "RESTORE_STATE" -> [action.payload EXCEPT !.isLoading = FALSE]
    [] OTHER -> s

\* RESET_GAME removes the saved item inside the reducer.
reducerStorage(st, action) == IF action.type = "RESET_GAME" THEN Absent ELSE st

\* An auto-save effect that also saves while a cycle is loading: C17 must
\* tell it from the effect of the source.
autoSave_whileLoading(st, s) == IF s.gamePhase # "menu" THEN Saved(s) ELSE st

\* The auto-save effect, run after a render with a new state object.
autoSave(st, s) == IF s.gamePhase # "menu" /\ ~s.isLoading THEN Saved(s) ELSE st

\* ---------------------------------------------------------------- provider clients
\* Timers, in ms. The clients that call the providers from the browser:
TEXT_TIMEOUT_MS_DIRECT == 15000
IMAGE_TIMEOUT_MS_DIRECT == 30000
\* the client of the proxy (and of Gemini in a development build):
TEXT_TIMEOUT_MS == 30000
IMAGE_TIMEOUT_MS == 60000
\* AbortSignal.timeout of the handlers' provider requests:
HANDLER_TEXT_TIMEOUT_MS == 25000
HANDLER_IMAGE_TIMEOUT_MS == 50000
\* errorBody.substring(0, 100) in the clients' error messages
ERROR_EXCERPT == 100

Ok(v) == [ok |-> TRUE, val |-> v, err |-> <<>>]
Err(m) == [ok |-> FALSE, val |-> Undefined, err |-> m]

isText(pc) == pc \in {"text1", "text2"}

\* What rejects a fetch whose AbortController fired.
ABORTED == <<"The user aborted a request.">>
\* What rejects a fetch whose AbortSignal.timeout fired.
TIMED_OUT == <<"The operation was aborted due to timeout">>

\* fetchWithTimeout's timer of the client call awaited at pc; 0 when the call has none.
clientTimer(cfg, pc) ==
  CASE cfg.deployment = "direct" /\ pc = "text1" -> TEXT_TIMEOUT_MS_DIRECT
    [] cfg.deployment = "direct" /\ pc = "image1" -> IMAGE_TIMEOUT_MS_DIRECT
    [] cfg.deployment = "direct" -> 0
    [] isText(pc) -> TEXT_TIMEOUT_MS
    [] OTHER -> IMAGE_TIMEOUT_MS

\* The timer a proxy handler sets on each of its provider requests; 0 elsewhere.
legTimer(cfg, pc) ==
  IF cfg.deployment # "proxy" THEN 0
  ELSE IF isText(pc) THEN HANDLER_TEXT_TIMEOUT_MS ELSE HANDLER_IMAGE_TIMEOUT_MS

\* The message of the Error a failed provider request raises (the clients
\* write a long dash where " - " stands here).
httpError(cfg, pc, leg, o) ==
  IF cfg.deployment = "proxy"
    THEN CASE isText(pc) /\ leg = "gemini" -> <<"Gemini ", o.status>>
           [] isText(pc) /\ leg = "openai" -> <<"OpenAI ", o.status>>
           [] leg = "gemini" -> <<"Imagen ", o.status>>
           [] OTHER -> <<"DALL-E ", o.status>>
    ELSE (CASE isText(pc) /\ leg = "gemini" -> <<"Gemini API error: ", o.status, " - ">>
            [] isText(pc) /\ leg = "openai" -> <<"OpenAI API error: ", o.status, " - ">>
            [] leg = "gemini" -> <<"Imagen API error: ", o.status, " - ">>
            [] OTHER -> <<"DALL-E API error: ", o.status, " - ">>)
         \o substring(o.body, ERROR_EXCERPT)

NO_IMAGE_DATA == <<"No image data in Imagen response">>

\* What the code makes of a provider's answer o to the request of `leg` at pc.
legResult(cfg, pc, leg, o) ==
  IF o.k = "http" THEN Err(httpError(cfg, pc, leg, o))
  ELSE IF isText(pc) THEN Ok(or(o.body, Str(<<>>)))
  ELSE IF leg = "gemini"
    THEN IF truthy(o.body) THEN Ok(Str(<<"data:image/png;base64,">> \o o.body.v))
         ELSE Err(NO_IMAGE_DATA)
  ELSE Ok(or(o.body, Str(<<>>)))

\* The start of the client call awaited at pc: the provider whose request goes
\* out first, or "none" with the error the call raises without any request;
\* skipped: the providers passed over because their key is not configured.
begin(cfg, pc) ==
  CASE cfg.deployment = "dev" -> [leg |-> "gemini", err |-> <<>>, skipped |-> <<>>]
    [] cfg.deployment = "direct" /\ pc \in {"text1", "image1"} ->
         IF cfg.geminiKey THEN [leg |-> "gemini", err |-> <<>>, skipped |-> <<>>]
         ELSE [leg |-> "none", err |-> <<"Gemini API key not configured">>,
               skipped |-> <<"gemini">>]
    [] cfg.deployment = "direct" ->
         IF cfg.openaiKey THEN [leg |-> "openai", err |-> <<>>, skipped |-> <<>>]
         ELSE [leg |-> "none", err |-> <<"OpenAI API key not configured">>,
               skipped |-> <<"openai">>]
    [] OTHER ->
         IF cfg.geminiKey THEN [leg |-> "gemini", err |-> <<>>, skipped |-> <<>>]
         ELSE IF cfg.openaiKey THEN [leg |-> "openai", err |-> <<>>, skipped |-> <<"gemini">>]
         ELSE [leg |-> "none", err |-> <<"No API keys configured on server">>,
               skipped |-> <<"gemini", "openai">>]

\* ---------------------------------------------------------------- request log
\* History of the provider requests of one generateTurn invocation.
\* A secondary image call given the scene prompt instead of fullPrompt: C4
\* tells it from sentPrompt.
sentPrompt_sceneToSecondary(c, pc) ==
  IF isText(pc) THEN c.prompt
  ELSE IF pc = "image2" THEN c.content.imagePrompt.v ELSE c.fullPrompt

sentPrompt(c, pc) == IF isText(pc) THEN c.prompt ELSE c.fullPrompt

logEntry(c, pc, provider, status) ==
  [op |-> IF isText(pc) THEN "text" ELSE "image", call |-> pc, provider |-> provider,
   prompt |-> sentPrompt(c, pc), status |-> status]

logSkipped(c, pc, skipped) ==
  c.log \o [i \in 1..Len(skipped) |-> logEntry(c, pc, skipped[i], "unconfigured")]

closeLast(log, status) == [log EXCEPT ![Len(log)].status = status]

\* ---------------------------------------------------------------- storyService: orchestration
BOTH_FAILED(geminiError, openaiError) ==
  <<"Both APIs failed. Gemini: ">> \o geminiError \o <<" | OpenAI: ">> \o openaiError

NOT_A_FUNCTION(field) == <<"parsed.", field, ".substring is not a function">>

noContent ==
  [narrative |-> Str(<<>>), imagePrompt |-> Str(<<>>), choices |-> <<>>, usedFallback |-> FALSE]

\* generateTurn's catch: setError(err.message)
setError(c, message) ==
  [c EXCEPT !.pc = "settled", !.leg = "none",
            !.action = [type |-> "SET_ERROR", payload |-> Str(message)]]

\* A setTurnContent that drops the text result when there is no image: C22
\* must tell it from the setTurnContent of the source.
setTurnContent_textNeedsImage(c, image) ==
  [c EXCEPT !.pc = "settled", !.leg = "none",
            !.action = [type |-> "SET_TURN_CONTENT",
                        payload |-> [narrative |-> IF image = Null THEN Str(<<>>)
                                                   ELSE c.content.narrative,
                                     image |-> image,
                                     choices |-> IF image = Null THEN <<>>
                                                 ELSE c.content.choices,
                                     usedFallback |-> c.content.usedFallback]]]

\* generateTurn's setTurnContent({narrative, image, choices, usedFallback})
setTurnContent(c, image) ==
  [c EXCEPT !.pc = "settled", !.leg = "none",
            !.action = [type |-> "SET_TURN_CONTENT",
                        payload |-> [narrative |-> c.content.narrative, image |-> image,
                                     choices |-> c.content.choices,
                                     usedFallback |-> c.content.usedFallback]]]

\* A fullPrompt that prepends the style whatever the prompt begins with: C30
\* must tell it from the fullPrompt of the source.
fullPrompt_alwaysPrepends(imagePrompt, artStylePrompt) ==
  artStylePrompt \o <<",", SP>> \o imagePrompt

\* generateImage's fullPrompt
fullPrompt(imagePrompt, artStylePrompt) ==
  IF startsWith(imagePrompt, artStylePrompt) THEN imagePrompt
  ELSE artStylePrompt \o <<",", SP>> \o imagePrompt

RECURSIVE enter(_, _, _)
RECURSIVE complete(_, _, _)

\* The client call awaited at pc starts: c with its first request in flight, or
\* what follows when the call fails without one.
enter(cfg, c, pc) ==
  LET b == begin(cfg, pc)
      c1 == [c EXCEPT !.pc = pc, !.elapsed = 0, !.log = logSkipped(c, pc, b.skipped)]
  IN IF b.leg = "none" THEN complete(cfg, c1, Err(b.err))
     ELSE [c1 EXCEPT !.leg = b.leg, !.log = Append(@, logEntry(c, pc, b.leg, "inflight"))]

\* generateStoryContent holds the rawText of a provider.
received(c, rawText, usedFallback) ==
  [c EXCEPT !.pc = "received", !.leg = "none", !.rawText = rawText,
            !.content = [noContent EXCEPT !.usedFallback = usedFallback]]

\* A generateImage whose failure on both providers reaches generateTurn's outer
\* catch: C5 tells it from complete.
complete_imageFailureThrown(cfg, c, r) ==
  CASE c.pc = "text1" ->
         IF r.ok THEN received(c, r.val, FALSE)
         ELSE enter(cfg, [c EXCEPT !.geminiError = r.err], "text2")
    [] c.pc = "text2" ->
         IF r.ok THEN received(c, r.val, TRUE)
         ELSE setError(c, BOTH_FAILED(c.geminiError, r.err))
    [] c.pc = "image1" ->
         IF r.ok THEN setTurnContent(c, r.val) ELSE enter(cfg, c, "image2")
    [] OTHER ->
         IF r.ok THEN setTurnContent(c, r.val) ELSE setError(c, r.err)

\* The client call awaited at c.pc returned r: the try/catch chains of
\* generateStoryContent and generateImage.
complete(cfg, c, r) ==
  CASE c.pc = "text1" ->
         IF r.ok THEN received(c, r.val, FALSE)
         ELSE enter(cfg, [c EXCEPT !.geminiError = r.err], "text2")
    [] c.pc = "text2" ->
         IF r.ok THEN received(c, r.val, TRUE)
         ELSE setError(c, BOTH_FAILED(c.geminiError, r.err))
    [] c.pc = "image1" ->
         IF r.ok THEN setTurnContent(c, r.val) ELSE enter(cfg, c, "image2")
    [] OTHER ->
         IF r.ok THEN setTurnContent(c, r.val) ELSE setTurnContent(c, Null)

\* generateStoryContent from the rawText on (the parse and the lines that log
\* the parsed fields), then generateTurn up to its call of generateImage.
afterParse(cfg, c, parsed) ==
  IF parsed.narrative.t # "str" THEN setError(c, NOT_A_FUNCTION("narrative"))
  ELSE IF parsed.imagePrompt.t # "str" THEN setError(c, NOT_A_FUNCTION("imagePrompt"))
  ELSE IF truthy(parsed.imagePrompt)
    THEN enter(cfg, [c EXCEPT !.content = [parsed EXCEPT !.usedFallback = c.content.usedFallback],
                              !.fullPrompt = fullPrompt(parsed.imagePrompt.v, c.artStylePrompt)],
               "image1")
  ELSE setTurnContent([c EXCEPT !.content =
                         [parsed EXCEPT !.usedFallback = c.content.usedFallback]], Null)

afterText(cfg, c) ==
  afterParse(cfg, c, [usedFallback |-> FALSE] @@ parseResponse(c.rawText.v))

\* ---------------------------------------------------------------- proxy handlers
ALL_FAILED(pc, message) ==
  (IF isText(pc) THEN <<"All AI providers failed. Last error: ">>
   ELSE <<"All image providers failed. Last error: ">>) \o message

\* The response of a handler whose last request ended with r.
response(c, r) ==
  IF r.ok THEN Ok(r.val)
  ELSE IF c.leg = "gemini" THEN Err(<<"No API keys configured on server">>)
  ELSE Err(ALL_FAILED(c.pc, r.err))

\* The handler after its request to `leg` ended with r, `took` ms after it began:
\* the request to OpenAI in flight, or the response the client reads.
handler(cfg, c, r, took) ==
  IF ~r.ok /\ c.leg = "gemini" /\ cfg.openaiKey
    THEN [c EXCEPT !.leg = "openai", !.elapsed = @ + took,
                   !.log = Append(@, logEntry(c, c.pc, "openai", "inflight"))]
    ELSE complete(cfg,
                  IF ~r.ok /\ c.leg = "gemini"
                    THEN [c EXCEPT !.log = logSkipped(c, c.pc, <<"openai">>)] ELSE c,
                  response(c, r))

\* ---------------------------------------------------------------- a provider answers
closed(c, status) == [c EXCEPT !.log = closeLast(@, status)]

\* The request in flight ended with r.
answered(cfg, c, r) ==
  IF cfg.deployment = "proxy"
    THEN handler(cfg, closed(c, IF r.ok THEN "ok" ELSE "failed"), r, 0)
    ELSE complete(cfg, closed(c, IF r.ok THEN "ok" ELSE "failed"), r)

\* The provider answers the request in flight with o.
upstream(cfg, c, o) == answered(cfg, c, legResult(cfg, c.pc, c.leg, o))

\* Some timer is set on the request in flight.
timed(cfg, c) == clientTimer(cfg, c.pc) > 0

\* The first timer to fire does: the handler's, when it ends before the client's.
timerFires(cfg, c) ==
  IF legTimer(cfg, c.pc) > 0 /\ c.elapsed + legTimer(cfg, c.pc) < clientTimer(cfg, c.pc)
    THEN handler(cfg, closed(c, "failed"), Err(TIMED_OUT), legTimer(cfg, c.pc))
    ELSE complete(cfg, closed(c, IF cfg.deployment = "proxy" THEN "abandoned" ELSE "failed"),
                  Err(ABORTED))

\* ---------------------------------------------------------------- environment
\* The most generateTurn invocations in flight at once.
MaxCycles == 2
\* MAKE_CHOICE is not taken beyond this many turns past MAX_TURNS.
MaxExtraTurns == 0

DEPLOYMENTS == {"direct", "proxy", "dev"}

\* How the text providers write in a behaviour:
\*   "follows" as the prompt asks (no choices on the final turn);
\*   "offers"  choices on every turn, the final one included;
\*   "prose"   no JSON at all;
\*   "number"  JSON whose narrative is a number.
STORIES == {"follows", "offers", "prose", "number"}

\* How the providers fail in a behaviour, when they do:
\*   "http"    an error status;
\*   "timeout" no answer before a timer of the code fires;
\*   "empty"   a 200 answer without the content;
\*   "silent"  no answer at all, to any request.
FAULTS == {"http", "timeout", "empty", "silent"}

\* The environments played: every build and key setting against providers
\* that offer choices and fail by status, and with both keys every other way
\* of writing and every other way of failing. A development build does not
\* read the keys the other two builds check.
CONFIGS ==
  {cfg \in [deployment : DEPLOYMENTS, geminiKey : BOOLEAN, openaiKey : BOOLEAN,
            story : STORIES, fault : FAULTS] :
     /\ cfg.deployment = "dev" => cfg.geminiKey /\ cfg.openaiKey
     /\ cfg.story = "offers" \/ cfg.fault = "http"
     /\ (cfg.story = "offers" /\ cfg.fault = "http") \/ (cfg.geminiKey /\ cfg.openaiKey)}

member(k, v) == <<Q, k, Q, ":", SP>> \o v
quoted(s) == <<Q>> \o s \o <<Q>>

RAW_GOOD ==
  <<"{">> \o member("narrative", quoted(<<"You wake in the rain.">>)) \o <<",", SP>>
  \o member("imagePrompt", quoted(<<"Black and white", "film noir", ",", SP, "a street">>))
  \o <<",", SP>>
  \o member("choices", <<"[">> \o quoted(<<"Run">>) \o <<"]">>)
  \o <<"}">>
RAW_FINAL ==
  <<"{">> \o member("narrative", quoted(<<"The case is closed.">>)) \o <<",", SP>>
  \o member("imagePrompt", quoted(<<"a closed door">>)) \o <<",", SP>>
  \o member("choices", <<"[", "]">>) \o <<"}">>
RAW_PROSE == <<"I", SP, "cannot", SP, "comply.">>
RAW_NUMBER == <<"{">> \o member("narrative", <<"7">>) \o <<"}">>

FINAL_TURN == "3. This is the FINAL turn. Do NOT provide any choices."

\* The content of a provider's 200 answer to the request in flight of c.
written(cfg, c) ==
  IF ~isText(c.pc) THEN Str(<<"iVBORw0KGgo">>)
  ELSE CASE cfg.story = "follows" ->
              IF \E i \in DOMAIN c.prompt : c.prompt[i] = FINAL_TURN
                THEN Str(RAW_FINAL) ELSE Str(RAW_GOOD)
         [] cfg.story = "offers" -> Str(RAW_GOOD)
         [] cfg.story = "prose" -> Str(RAW_PROSE)
         [] OTHER -> Str(RAW_NUMBER)

\* The answer of a provider that fails by status.
OVERLOADED == [k |-> "http", status |-> "503", body |-> <<"overloaded">>]

\* The answers a provider may give to the request in flight of c.
Answers(cfg, c) ==
  (IF cfg.fault = "silent" THEN {}
   ELSE {[k |-> "ok", status |-> "200", body |-> written(cfg, c)]})
  \cup (CASE cfg.fault = "http" ->
               {OVERLOADED}
          [] cfg.fault = "empty" -> {[k |-> "ok", status |-> "200", body |-> Undefined]}
          [] OTHER -> {})

\* ---------------------------------------------------------------- operations
\* What may happen next to the request in flight of c: an answer, or a timer.
Steps(cfg, c) ==
  {upstream(cfg, c, o) : o \in Answers(cfg, c)}
  \cup (IF cfg.fault \in {"timeout", "silent"} /\ timed(cfg, c)
          THEN {timerFires(cfg, c)} ELSE {})

RECURSIVE textRuns(_, _)
RECURSIVE imageRuns(_, _)

\* The ways the client calls of generateStoryContent may end for c: with a
\* rawText received, or settled.
textRuns(cfg, c) ==
  IF isText(c.pc) THEN UNION {textRuns(cfg, d) : d \in Steps(cfg, c)} ELSE {c}

\* The ways generateImage may end for c.
imageRuns(cfg, c) ==
  IF c.pc = "settled" THEN {c} ELSE UNION {imageRuns(cfg, d) : d \in Steps(cfg, c)}

\* The ways the operation an invocation awaits may end.
Runs(cfg, c) ==
  IF c.pc = "start"
    THEN {IF d.pc = "received" THEN afterText(cfg, d) ELSE d :
            d \in textRuns(cfg, enter(cfg, c, "text1"))}
    ELSE imageRuns(cfg, c)

\* What an invocation keeps while it awaits generateImage: the locals of
\* generateStoryContent are gone, and the log starts over with the operation.
awaiting(c) ==
  [c EXCEPT !.geminiError = <<>>, !.rawText = Undefined,
            !.log = SelectSeq(@, LAMBDA e : e.op = "image")]

\* ---------------------------------------------------------------- App
\* generateTurn called from a render whose state is s, at its call of
\* generateStoryContent.
generateTurn(s) ==
  LET storyState == [currentTurn |-> s.currentTurn, maxTurns |-> s.maxTurns,
                     language |-> s.language, genre |-> s.genre,
                     artStylePrompt |-> s.artStylePrompt, history |-> s.history]
  IN [prompt |-> buildStoryPrompt(storyState), artStylePrompt |-> s.artStylePrompt,
      turn |-> s.currentTurn, pc |-> "start", leg |-> "none", elapsed |-> 0,
      geminiError |-> <<>>, rawText |-> Undefined, content |-> noContent,
      fullPrompt |-> <<>>,
      log |-> <<>>, action |-> [type |-> "none", payload |-> Undefined]]

\* dispatch(action), the render and the auto-save effect that follow.
dispatch(w, action) ==
  LET s == gameReducer(w.state, action)
  IN [w EXCEPT !.state = s, !.storage = autoSave(reducerStorage(w.storage, action), s)]

\* An invocation of generateTurn from state s joins those in flight. Where the
\* browser checks the keys itself and finds none, the invocation fails before
\* any request, ahead of every other event.
launch(cfg, w, s) ==
  LET c == generateTurn(s)
      d == enter(cfg, c, "text1")
  IN IF cfg.deployment = "direct" /\ d.pc = "settled"
       THEN dispatch(w, d.action)
       ELSE [w EXCEPT !.cycles = Append(w.cycles, c)]

\* The trigger effect: its dependencies changed and the state is loading.
triggers(old, new) ==
  /\ new.isLoading /\ new.gamePhase = "loading"
  /\ <<old.isLoading, old.gamePhase, old.currentTurn, old.maxTurns, old.language,
       old.genre, old.artStylePrompt, old.history>>
     # <<new.isLoading, new.gamePhase, new.currentTurn, new.maxTurns, new.language,
         new.genre, new.artStylePrompt, new.history>>

\* A dispatch from an event handler, with the effects of the render it causes.
event(cfg, w, action) ==
  LET w1 == dispatch(w, action)
  IN IF triggers(w.state, w1.state) THEN launch(cfg, w1, w1.state) ELSE w1

world == [state |-> state, storage |-> storage, cycles |-> cycles]

Becomes(w) ==
  /\ state' = w.state
  /\ storage' = w.storage
  /\ cycles' = w.cycles
  /\ UNCHANGED <<config, call>>

remove(seq, i) == SubSeq(seq, 1, i - 1) \o SubSeq(seq, i + 1, Len(seq))

\* The operation the invocation i awaits ends as d: the invocation awaits its
\* next operation, or dispatches and is over.
Ends(i, d) ==
  IF d.pc = "settled"
    THEN Becomes(dispatch([world EXCEPT !.cycles = remove(cycles, i)], d.action))
    ELSE Becomes([world EXCEPT !.cycles[i] = awaiting(d)])

\* ---------------------------------------------------------------- actions
\* No function is called on its own while the game is played.
NoCall == [fn |-> "none", args |-> <<>>, step |-> "none", result |-> Undefined]

Init ==
  /\ state = initialState
  /\ storage = Absent
  /\ cycles = <<>>
  /\ config \in CONFIGS
  /\ call = NoCall

\* GenreSelect: a genre card is clicked.
StartGame ==
  /\ state.gamePhase = "menu"
  /\ Len(cycles) < MaxCycles
  /\ \E genreData \in GENRES, language \in LANGUAGES :
       /\ [language |-> language, genreId |-> genreData.id] \in SELECTIONS
       /\ Becomes(event(config, world,
                       [type |-> "START_GAME",
                        payload |-> [language |-> language, genre |-> genreData.name,
                                     genreId |-> genreData.id,
                                     artStylePrompt |-> genreData.artStylePrompt,
                                     color |-> genreData.color]]))

\* StoryTurn: a choice button is clicked.
MakeChoice ==
  /\ state.gamePhase = "playing"
  /\ Len(cycles) < MaxCycles
  /\ state.currentTurn < MAX_TURNS + MaxExtraTurns
  /\ \E k \in 1..Len(state.currentChoices) :
       Becomes(event(config, world,
                     [type |-> "MAKE_CHOICE",
                      payload |-> [choiceText |-> state.currentChoices[k]]]))

\* The error banner's Retry button.
Retry ==
  /\ truthy(state.error)
  /\ Len(cycles) < MaxCycles
  /\ Becomes(launch(config, world, state))

\* StoryTurn's quit button, Epilogue's Play Again, the banner's Back to Menu.
ResetGame ==
  /\ state.gamePhase \in {"playing", "epilogue"} \/ truthy(state.error)
  /\ Becomes(event(config, world, [type |-> "RESET_GAME", payload |-> Undefined]))

\* GameProvider mounts over w: the restore effect.
mounted(cfg, w) ==
  IF w.storage.found /\ w.storage.item.gamePhase # "menu" /\ Len(w.storage.item.history) > 0
    THEN event(cfg, w, [type |-> "RESTORE_STATE", payload |-> w.storage.item])
    ELSE w

\* The page is loaded anew: what was in flight is gone, and the store mounts.
Relaunch ==
  /\ \E w \in {[world EXCEPT !.state = initialState, !.cycles = <<>>]} :
       Becomes(mounted(config, w))

\* generateStoryContent returns or throws. Its requests touch nothing but its
\* own locals, so the operation is one step; the log keeps the requests in
\* their order.
StoryContentSettles ==
  \E i \in 1..Len(cycles) :
    /\ cycles[i].pc = "start"
    /\ \E d \in Runs(config, cycles[i]) : Ends(i, d)

\* generateImage returns.
ImageSettles ==
  \E i \in 1..Len(cycles) :
    /\ cycles[i].pc # "start"
    /\ \E d \in Runs(config, cycles[i]) : Ends(i, d)

Next ==
  \/ StartGame
  \/ MakeChoice
  \/ Retry
  \/ ResetGame
  \/ Relaunch
  \/ StoryContentSettles
  \/ ImageSettles

Spec == Init /\ [][Next]_vars

\* ================================================================ properties
\* The requests of the operation the invocation c awaits, as the run d of that
\* operation leaves them in the log, in the order they were made.
requestsOf(c, d) ==
  SelectSeq(d.log, LAMBDA e : e.op = (IF c.pc = "start" THEN "text" ELSE "image"))

\* The runs the operations in flight may take: pairs <<c, d>>, d a run of the
\* operation the invocation c awaits.
InFlightRuns ==
  UNION {{<<cycles[i], d>> : d \in Runs(config, cycles[i])} : i \in 1..Len(cycles)}

attempted(e) == e.status # "unconfigured"

\* s occurs in t as a run of consecutive elements.
occursIn(s, t) == \E k \in 0..(Len(t) - Len(s)) : SubSeq(t, k + 1, k + Len(s)) = s

\* ---------------------------------------------------------------- C1
\* C1: in every text or image operation a request goes to the secondary
\* provider (OpenAI, DALL-E) if and only if the primary's (Gemini's, Imagen's)
\* attempt has just failed: a request to the secondary directly follows a
\* failed or unconfigured primary, and a failed primary is directly followed
\* by the secondary (its request, or the finding that it is not configured).
C1_SecondaryIffPrimaryFailed ==
  \A r \in InFlightRuns :
    \A j \in 1..Len(requestsOf(r[1], r[2])) :
      /\ (requestsOf(r[1], r[2])[j].provider = "openai" /\ attempted(requestsOf(r[1], r[2])[j]))
           => /\ j > 1
              /\ requestsOf(r[1], r[2])[j - 1].provider = "gemini"
              /\ requestsOf(r[1], r[2])[j - 1].status \in {"failed", "unconfigured"}
      /\ (requestsOf(r[1], r[2])[j].provider = "gemini"
            /\ requestsOf(r[1], r[2])[j].status = "failed")
           => /\ j < Len(requestsOf(r[1], r[2]))
              /\ requestsOf(r[1], r[2])[j + 1].provider = "openai"

\* ---------------------------------------------------------------- C2
\* C2: when the text requests to Gemini and to OpenAI both failed (by status)
\* and the operation fails, the message it fails with, which SET_ERROR stores
\* in the error field, holds the message of Gemini's failure and the message
\* of OpenAI's failure.
C2_AggregatedErrorHoldsBoth ==
  \A r \in InFlightRuns :
    ( /\ config.fault = "http"
      /\ r[1].pc = "start"
      /\ r[2].action.type = "SET_ERROR"
      /\ \E j \in DOMAIN r[2].log :
           r[2].log[j].provider = "gemini" /\ r[2].log[j].status = "failed"
      /\ \E j \in DOMAIN r[2].log :
           r[2].log[j].provider = "openai" /\ r[2].log[j].status = "failed" )
    => /\ gameReducer(state, r[2].action).error = r[2].action.payload
       /\ occursIn(httpError(config, "text1", "gemini", OVERLOADED), r[2].action.payload.v)
       /\ occursIn(httpError(config, "text1", "openai", OVERLOADED), r[2].action.payload.v)

\* ---------------------------------------------------------------- C3
\* C3: for every text generation that succeeds, usedFallback is true exactly
\* when the request that produced the text went to the secondary provider.
C3_UsedFallbackIffSecondary ==
  \A r \in InFlightRuns :
    \A j \in DOMAIN r[2].log :
      (r[1].pc = "start" /\ r[2].log[j].op = "text" /\ r[2].log[j].status = "ok"
         /\ r[2].action.type # "SET_ERROR")
      => (r[2].content.usedFallback <=> r[2].log[j].provider = "openai")

\* ---------------------------------------------------------------- C4
\* C4: every request of one operation, to the primary and to the secondary,
\* carries the same prompt: the story prompt built when the invocation began
\* for text, the style-prefixed prompt generateImage computed for image.
C4_SamePromptToBoth ==
  \A r \in InFlightRuns :
    \A j \in 1..Len(requestsOf(r[1], r[2])) :
      requestsOf(r[1], r[2])[j].prompt =
        IF r[1].pc = "start" THEN r[1].prompt
        ELSE fullPrompt(r[1].content.imagePrompt.v, r[1].artStylePrompt)

\* A text operation and an image operation each put a request to the
\* secondary after the primary failed, the image prompt having been prefixed.
C4_SecondaryAsked ==
  /\ \E r \in InFlightRuns :
       /\ r[1].pc = "start"
       /\ \E j \in 1..Len(requestsOf(r[1], r[2])) :
            /\ requestsOf(r[1], r[2])[j].provider = "openai"
            /\ requestsOf(r[1], r[2])[j].status = "ok"
  /\ \E r \in InFlightRuns :
       /\ r[1].pc # "start"
       /\ r[1].fullPrompt # r[1].content.imagePrompt.v
       /\ \E j \in 1..Len(requestsOf(r[1], r[2])) :
            /\ requestsOf(r[1], r[2])[j].provider = "openai"
            /\ requestsOf(r[1], r[2])[j].status = "ok"

C6_ErrorOnlyWhenTextFailed ==
  \A r \in InFlightRuns :
    (r[2].action.type = "SET_ERROR" /\ truthy(gameReducer(state, r[2].action).error))
    => /\ r[1].pc = "start"
       /\ \A j \in DOMAIN r[2].log : r[2].log[j].status # "ok"

\* ---------------------------------------------------------------- C7
\* An invocation in flight fails in this step.
CycleFails ==
  /\ Len(cycles') < Len(cycles)
  /\ truthy(state'.error)
  /\ \E i \in 1..Len(cycles) : \E d \in Runs(config, cycles[i]) :
       /\ d.action.type = "SET_ERROR"
       /\ cycles' = remove(cycles, i)
       /\ state' = gameReducer(state, d.action)

\* C7: when a generation cycle fails, the phase becomes playing if history is
\* non-empty and menu otherwise, isLoading becomes false, the error is set,
\* and currentTurn, history, genre and artStylePrompt are unchanged.
C7_FailureAnchorsPhase ==
  [][CycleFails =>
       /\ state'.gamePhase = (IF Len(state.history) > 0 THEN "playing" ELSE "menu")
       /\ ~state'.isLoading
       /\ truthy(state'.error)
       /\ state'.currentTurn = state.currentTurn
       /\ state'.history = state.history
       /\ state'.genre = state.genre
       /\ state'.artStylePrompt = state.artStylePrompt]_vars

\* A cycle has failed on a later turn: the phase is playing, with the turn
\* and the history of the loading state and no choices to select.
C7_FailedOnLaterTurn ==
  /\ truthy(state.error) /\ state.gamePhase = "playing" /\ Len(state.history) > 0
  /\ ~state.isLoading /\ state.currentChoices = <<>>

\* ---------------------------------------------------------------- C8
\* C8: in every reachable state whose phase is playing or loading,
\* history.length = currentTurn - 1.
C8_HistoryTracksTurn ==
  state.gamePhase \in {"playing", "loading"} => Len(state.history) = state.currentTurn - 1

\* A cycle failed on a later turn, the state was saved with its error, and a
\* retry is in flight.
C8_LaterTurnAfterFailure ==
  /\ state.gamePhase = "playing" /\ state.currentTurn > 1 /\ truthy(state.error)
  /\ storage.found /\ storage.item = state
  /\ Len(cycles) > 0

\* ---------------------------------------------------------------- C9
\* C9: the phase is epilogue only with currentTurn >= maxTurns, and once the
\* final turn's result has put the phase to epilogue it stays epilogue until
\* an explicit reset.
C9_EpilogueUntilReset ==
  [][/\ state.gamePhase = "epilogue" => state.currentTurn >= state.maxTurns
     /\ (state.gamePhase = "epilogue" /\ state'.gamePhase # "epilogue")
          => state' = initialState /\ storage' = Absent]_vars

\* ---------------------------------------------------------------- C10
\* C10: when content was generated at currentTurn >= maxTurns the phase is
\* epilogue and currentChoices is empty.
C10_EpilogueHasNoChoices ==
  state.gamePhase = "epilogue" => state.currentChoices = <<>>

\* ---------------------------------------------------------------- C11
\* C11: at most one generation cycle is in flight at any time.
C11_OneCycleInFlight == Len(cycles) <= 1

\* ---------------------------------------------------------------- C12
\* C12: once the state is the initial menu state and nothing is saved (as an
\* explicit reset leaves them), both stay so until a session is started: the
\* only step that changes either is a START_GAME, which sets the genre.
C12_ResetHoldsUntilStart ==
  [][(state = initialState /\ storage = Absent)
       => \/ state' = initialState /\ storage' = Absent
          \/ state'.genreId # ""]_vars

C14_StartResetsSession ==
  [][(state.gamePhase = "menu" /\ state'.gamePhase = "loading")
       => /\ state'.currentTurn = 1
          /\ state'.history = <<>>
          /\ state'.error = Null
          /\ state'.currentNarrative = Str(<<>>)
          /\ state'.currentImage = Null
          /\ state'.currentChoices = <<>>
          /\ state'.isLoading
          /\ state'.language \in LANGUAGES
          /\ \E g \in GENRES :
               /\ state'.genre = g.name /\ state'.genreId = g.id
               /\ state'.artStylePrompt = g.artStylePrompt
               /\ state'.genreColor = g.color]_vars

\* A session is loading that was started over the menu state another session
\* left behind: two cycles are in flight, the older one for the other genre.
C14_StartedOverOldSession ==
  /\ state.gamePhase = "loading" /\ state.currentTurn = 1
  /\ Len(cycles) = 2
  /\ cycles[1].artStylePrompt # state.artStylePrompt

\* ---------------------------------------------------------------- C15
\* C15: every step other than a session start, a reset and a page load
\* (choice selection, generation success, generation failure, retry) leaves
\* genre, artStylePrompt, genreColor, language and maxTurns unchanged.
C15_SessionSettingsFrozen ==
  [][(~StartGame /\ ~ResetGame /\ ~Relaunch)
       => /\ state'.genre = state.genre
          /\ state'.artStylePrompt = state.artStylePrompt
          /\ state'.genreColor = state.genreColor
          /\ state'.language = state.language
          /\ state'.maxTurns = state.maxTurns]_vars

\* A Korean cyberpunk session has reached its epilogue through a choice and
\* a final turn whose text came on the fallback call.
C15_SessionPlayedThrough ==
  /\ state.gamePhase = "epilogue" /\ state.genreId = "cyberpunk"
  /\ state.language = "Korean" /\ Len(state.history) = MAX_TURNS - 1
  /\ state.usedFallback

\* ---------------------------------------------------------------- C16
\* C16: every prompt sent to an image provider, primary or secondary, begins
\* with the artStylePrompt of the session into which the resulting image is
\* merged: whenever generateImage is in flight, each request it makes begins
\* with the artStylePrompt the state holds, the state its result is merged
\* into if it returns now.
C16_ImagePromptHasSessionStyle ==
  \A r \in InFlightRuns :
    r[1].pc # "start"
      => \A j \in 1..Len(requestsOf(r[1], r[2])) :
           attempted(requestsOf(r[1], r[2])[j])
             => startsWith(requestsOf(r[1], r[2])[j].prompt, state.artStylePrompt)

\* ---------------------------------------------------------------- C17
\* C17: the state a page load leaves is never in phase loading and never has
\* isLoading set, no generation cycle is in flight after it, and when it is
\* not the initial menu state it is the state that was saved, whose phase is
\* playing or epilogue.
C17_RestoreIsSettled ==
  [][Relaunch
       => /\ state'.gamePhase # "loading"
          /\ ~state'.isLoading
          /\ cycles' = <<>>
          /\ state' # initialState
               => /\ storage.found
                  /\ state' = storage.item
                  /\ state'.gamePhase \in {"playing", "epilogue"}]_vars

\* The session a page load restores after a failed second turn: the saved
\* state, in phase playing with its error and one history record, and
\* nothing in flight.
C17_RestoredAfterFailure ==
  /\ storage.found /\ state = storage.item
  /\ cycles = <<>>
  /\ state.gamePhase = "playing" /\ truthy(state.error)
  /\ Len(state.history) = 1 /\ ~state.isLoading

\* ---------------------------------------------------------------- C18
\* C18: whenever the session is in a settled phase (playing or epilogue, not
\* loading, turn 1 with an empty history included), the saved state equals
\* the current state, and a page load at that point restores exactly that
\* state.
C18_SaveRestoreRoundTrip ==
  (state.gamePhase \in {"playing", "epilogue"} /\ ~state.isLoading)
    => /\ storage = Saved(state)
       /\ mounted(config, [world EXCEPT !.state = initialState, !.cycles = <<>>]).state
            = state

\* ---------------------------------------------------------------- C19
\* C19: every generation cycle settles even if a provider never responds,
\* every provider call being bounded by a timeout: the operation an
\* invocation in flight awaits always has a way to end.
C19_EveryCycleCanSettle ==
  \A i \in 1..Len(cycles) : Runs(config, cycles[i]) # {}

\* ---------------------------------------------------------------- C20
\* C20: a provider's answer with a success status but without the expected
\* text or image is treated as a failure of that provider and never returned
\* to the caller as an empty string: no run of generateStoryContent receives
\* the empty string as its text, and no run of generateImage hands the empty
\* string on as the turn's image.
C20_EmptyResultIsFailure ==
  \A r \in InFlightRuns :
    /\ r[2].rawText # Str(<<>>)
    /\ r[2].action.type = "SET_TURN_CONTENT" => r[2].action.payload.image # Str(<<>>)

\* ---------------------------------------------------------------- C21
\* C21: within one text or image operation each provider is called at most
\* once, so that the operation issues at most two provider requests.
C21_EachProviderOnce ==
  \A r \in InFlightRuns :
    /\ Len(SelectSeq(requestsOf(r[1], r[2]), attempted)) <= 2
    /\ \A j, k \in 1..Len(requestsOf(r[1], r[2])) :
         (j < k /\ attempted(requestsOf(r[1], r[2])[j])
                /\ attempted(requestsOf(r[1], r[2])[k]))
           => requestsOf(r[1], r[2])[j].provider # requestsOf(r[1], r[2])[k].provider

\* ---------------------------------------------------------------- C22
\* C22: the text and the image of a turn are generated one after the other.
\* In generateStoryContent's part of a turn no image request precedes a text
\* request, and an image request is made only once a rawText has been
\* received and parsed to a non-empty imagePrompt; the narrative and choices
\* dispatched are those parsed from the rawText, and generateImage, however
\* it ends, is followed by SET_TURN_CONTENT with the narrative and choices
\* the invocation already held.
C22_TextThenImage ==
  \A r \in InFlightRuns :
    /\ r[1].pc = "start"
         => /\ \A j, k \in DOMAIN r[2].log :
                 (j < k /\ r[2].log[k].op = "text") => r[2].log[j].op = "text"
            /\ (\E j \in DOMAIN r[2].log :
                   r[2].log[j].op = "image" /\ attempted(r[2].log[j]))
                 => /\ r[2].rawText.t = "str"
                    /\ truthy(parseResponse(r[2].rawText.v).imagePrompt)
            /\ r[2].action.type = "SET_TURN_CONTENT"
                 => /\ r[2].rawText.t = "str"
                    /\ ~truthy(parseResponse(r[2].rawText.v).imagePrompt)
                    /\ r[2].action.payload.narrative = parseResponse(r[2].rawText.v).narrative
                    /\ r[2].action.payload.choices = parseResponse(r[2].rawText.v).choices
    /\ r[1].pc # "start"
         => /\ truthy(r[1].content.imagePrompt)
            /\ r[2].action.type = "SET_TURN_CONTENT"
            /\ r[2].action.payload.narrative = r[1].content.narrative
            /\ r[2].action.payload.choices = r[1].content.choices

\* The second turn's text has been received and parsed, and its generateImage
\* is in flight with the scene the text asked for.
C22_ImageAwaitedAfterText ==
  /\ state.gamePhase = "loading" /\ state.currentTurn = 2
  /\ Len(cycles) = 1
  /\ cycles[1].pc # "start" /\ cycles[1].turn = 2
  /\ truthy(cycles[1].content.imagePrompt)
  /\ cycles[1].content.narrative.v # <<>>

\* ---------------------------------------------------------------- C23
\* C23: Retry after an error starts a generation cycle whose prompt is built
\* from the current state, for the same currentTurn, and changes neither
\* currentTurn nor history; and when a cycle succeeds after an error, the
\* error is cleared and the session holds that cycle's turn with its
\* content, in phase playing, or epilogue when the turn is the final one.
C23_RetryRestartsSameTurn ==
  /\ (truthy(state.error) /\ Len(cycles) < MaxCycles)
       => /\ launch(config, world, state).state.currentTurn = state.currentTurn
          /\ launch(config, world, state).state.history = state.history
          /\ launch(config, world, state).cycles # cycles
               => /\ launch(config, world, state).cycles = Append(cycles, generateTurn(state))
                  /\ generateTurn(state).turn = state.currentTurn
                  /\ generateTurn(state).prompt
                       = buildStoryPrompt([currentTurn |-> state.currentTurn,
                                           maxTurns |-> state.maxTurns,
                                           language |-> state.language,
                                           genre |-> state.genre,
                                           artStylePrompt |-> state.artStylePrompt,
                                           history |-> state.history])
  /\ \A r \in InFlightRuns :
       (truthy(state.error) /\ r[2].action.type = "SET_TURN_CONTENT")
         => /\ gameReducer(state, r[2].action).error = Null
            /\ gameReducer(state, r[2].action).currentTurn = r[1].turn
            /\ gameReducer(state, r[2].action).gamePhase
                 = (IF r[1].turn >= MAX_TURNS THEN "epilogue" ELSE "playing")
            /\ gameReducer(state, r[2].action).currentNarrative
                 = r[2].action.payload.narrative
            /\ gameReducer(state, r[2].action).currentChoices
                 = r[2].action.payload.choices
            /\ gameReducer(state, r[2].action).currentImage = r[2].action.payload.image

\* ---------------------------------------------------------------- C24
\* C24: when no provider is configured, the failure is surfaced when the
\* session is started and the session does not enter a generation cycle:
\* with neither key set, no session is loading and no invocation of
\* generateTurn is in flight.
C24_UnconfiguredNeverCycles ==
  (config.deployment # "dev" /\ ~config.geminiKey /\ ~config.openaiKey)
    => /\ cycles = <<>>
       /\ state.gamePhase # "loading"

\* ---------------------------------------------------------------- C25
\* The actions generateTurn may end with for the invocation c under cfg: the
\* ways generateStoryContent may end, each followed by the ways generateImage
\* may end where it is called.
turnOutcomes(cfg, c) ==
  UNION {IF d.pc = "settled" THEN {d.action}
         ELSE {e.action : e \in Runs(cfg, awaiting(d))} : d \in Runs(cfg, c)}

\* C25: the orchestration in the browser (provider calls with try primary,
\* catch, try secondary) and the orchestration through the server proxy
\* produce the same observable outcomes against the same providers and keys:
\* the same text and image, the same usedFallback, the same failures with
\* the same error message. For every invocation at its start, the actions it
\* may dispatch are the same in the two builds.
C25_DeploymentsAgree ==
  \A i \in 1..Len(cycles) :
    cycles[i].pc = "start"
      => turnOutcomes([config EXCEPT !.deployment = "direct"], cycles[i])
           = turnOutcomes([config EXCEPT !.deployment = "proxy"], cycles[i])

\* ================================================================ calls on their own
\* buildStoryPrompt, parseResponse and generateImage's prompt prefixing are
\* pure: a second specification calls them on story states and texts the
\* games of Spec do not reach.

\* JSON.stringify of a string, without its quotes.
RECURSIVE escaped(_)
escaped(s) ==
  IF s = <<>> THEN <<>>
  ELSE (CASE Head(s) = Q -> <<BS, Q>>
          [] Head(s) = BS -> <<BS, BS>>
          [] Head(s) = NL -> <<BS, "n">>
          [] OTHER -> <<Head(s)>>) \o escaped(Tail(s))

stringify(s) == <<Q>> \o escaped(s) \o <<Q>>

RECURSIVE elements(_)
elements(literals) ==
  IF literals = <<>> THEN <<>>
  ELSE Head(literals) \o (IF Len(literals) > 1 THEN <<",">> ELSE <<>>)
       \o elements(Tail(literals))

\* The object {narrative, imagePrompt, choices} written with the string
\* literals `literal` makes.
serialized(rec, literal(_)) ==
  <<"{", Q, "narrative", Q, ":">> \o literal(rec.narrative)
  \o <<",", Q, "imagePrompt", Q, ":">> \o literal(rec.imagePrompt)
  \o <<",", Q, "choices", Q, ":", "[">>
  \o elements([i \in 1..Len(rec.choices) |-> literal(rec.choices[i])])
  \o <<"]", "}">>

\* JSON.stringify(rec)
JSONstringify(rec) == serialized(rec, stringify)

\* rec as a provider writes it that leaves the quotation marks inside its
\* strings unescaped.
unescaped(rec) == serialized(rec, quoted)

NARRATIVES ==
  { <<"You wake in the rain.">>,
    <<"She said ", Q, "run", Q, ".">>,
    <<"Line one.", NL, "Line two.">>,
    <<"Set x to ", "{", "1", "}", ".">>,
    <<>> }

SCENES == { <<"Black and white", "film noir", ",", SP, "a street">>, <<"a street">> }

CHOICE_LISTS ==
  { <<>>,
    <<<<"Run">>, <<"Hide">>, <<"Fight">>>>,
    <<<<"Run">>, <<"Hide">>, <<"Fight">>, <<"Wait">>>> }

RECORDS == [narrative : NARRATIVES, imagePrompt : SCENES, choices : CHOICE_LISTS]

\* How a provider may wrap the object it was asked for.
WRAPPERS == {"plain", "fenced", "prose", "bracedProse"}

wrapped(w, json) ==
  CASE w = "plain" -> json
    [] w = "fenced" -> <<FENCE, "json", NL>> \o json \o <<NL, FENCE>>
    [] w = "prose" -> <<"Here is the story:", NL>> \o json \o <<NL, "Enjoy!">>
    [] OTHER -> <<"Here is the story:", NL>> \o json
                \o <<NL, "Ask for changes ", "{", "tone, length", "}", ".">>

\* An object without a narrative whose imagePrompt holds unescaped quotes.
RAW_REPAIRABLE ==
  <<"{">> \o member("imagePrompt", quoted(<<"a ", Q, "neon", Q, " street">>)) \o <<",", SP>>
  \o member("choices", <<"[">> \o quoted(<<"A">>) \o <<",">> \o quoted(<<"B">>) \o <<",">>
                        \o quoted(<<"C">>) \o <<",">> \o quoted(<<"D">>) \o <<"]">>)
  \o <<"}">>

\* Texts with no JSON object and no field in them.
GARBAGE ==
  { <<>>, <<"{">>, <<"}", "{">>, <<Q>>, <<"{", "}">>, <<Q, Q>>, <<"{", Q, "}">>, RAW_PROSE }

RAW_TEXTS ==
  {wrapped(w, JSONstringify(rec)) : w \in WRAPPERS, rec \in RECORDS}
  \cup {unescaped(rec) : rec \in RECORDS}
  \cup {RAW_REPAIRABLE, RAW_NUMBER}
  \cup GARBAGE

\* The turns buildStoryPrompt is called for: before the pacing table, in it
\* and past it.
TURNS == 0..12

\* A turn limit inside the pacing table and the one of the source.
TURN_LIMITS == {3, 10}

record(turn, narrative, choiceMade) ==
  [turn |-> turn, narrative |-> Str(narrative), image |-> Null, choiceMade |-> choiceMade]

\* Histories of no, one, two and three turns, the last one with its choice
\* or without.
HISTORIES ==
  { <<>>,
    <<record(1, <<"You wake in the rain.">>, Str(<<"Run">>))>>,
    <<record(1, <<"You wake in the rain.">>, Null)>>,
    <<record(1, <<"You wake in the rain.">>, Str(<<"Run">>)),
      record(2, <<"The alley ends.">>, Str(<<"Hide">>))>>,
    <<record(1, <<"You wake in the rain.">>, Str(<<"Run">>)),
      record(2, <<"The alley ends.">>, Str(<<>>))>>,
    <<record(1, <<"You wake in the rain.">>, Str(<<"Run">>)),
      record(2, <<"The alley ends.">>, Str(<<"Hide">>)),
      record(3, <<"A door opens.">>, Str(<<"Fight">>))>> }

STORY_STATES ==
  {[currentTurn |-> currentTurn, maxTurns |-> maxTurns, language |-> language,
    genre |-> genreData.name, artStylePrompt |-> genreData.artStylePrompt,
    history |-> history] :
      currentTurn \in TURNS, maxTurns \in TURN_LIMITS, language \in LANGUAGES,
      genreData \in {g \in GENRES : g.id = "noir"}, history \in HISTORIES}

CALLS ==
  {[fn |-> "parseResponse", args |-> <<rawText>>, step |-> "called", result |-> Undefined] :
     rawText \in RAW_TEXTS}
  \cup {[fn |-> "buildStoryPrompt", args |-> <<storyState>>, step |-> "called",
          result |-> Undefined] : storyState \in STORY_STATES}
  \cup {[fn |-> "generateImage", args |-> <<imagePrompt, genreData.artStylePrompt>>,
          step |-> "called", result |-> Undefined] :
           imagePrompt \in SCENES \cup {<<>>}, genreData \in GENRES}

\* A noir session waits for its first turn, and one call is made.
InitCall ==
  /\ \E genreData \in GENRES :
       /\ genreData.id = "noir"
       /\ state = START_GAME([language |-> "English", genre |-> genreData.name,
                              genreId |-> genreData.id,
                              artStylePrompt |-> genreData.artStylePrompt,
                              color |-> genreData.color])
  /\ storage = Absent
  /\ cycles = <<>>
  /\ config = [deployment |-> "direct", geminiKey |-> TRUE, openaiKey |-> TRUE,
               story |-> "offers", fault |-> "http"]
  /\ call \in CALLS

\* parseResponse(rawText) returns.
ParseReturns ==
  /\ call.fn = "parseResponse" /\ call.step = "called"
  /\ call' = [call EXCEPT !.step = "returned", !.result = parseStaged(call.args[1])]
  /\ UNCHANGED <<state, storage, cycles, config>>

\* What generateTurn dispatches when generateStoryContent has received rawText
\* and generateImage, where it is called, returns null.
dispatchedFor(cfg, s, rawText) ==
  IF afterText(cfg, received(generateTurn(s), Str(rawText), FALSE)).pc = "settled"
    THEN afterText(cfg, received(generateTurn(s), Str(rawText), FALSE)).action
    ELSE setTurnContent(afterText(cfg, received(generateTurn(s), Str(rawText), FALSE)),
                        Null).action

\* The turn made of the text is dispatched to the store.
TurnDispatched ==
  /\ call.fn = "parseResponse" /\ call.step = "returned"
  /\ call' = [call EXCEPT !.step = "dispatched"]
  /\ state' = dispatch(world, dispatchedFor(config, state, call.args[1])).state
  /\ storage' = dispatch(world, dispatchedFor(config, state, call.args[1])).storage
  /\ UNCHANGED <<cycles, config>>

\* generateImage(imagePrompt, artStylePrompt) has made its fullPrompt.
PromptPrefixed ==
  /\ call.fn = "generateImage" /\ call.step = "called"
  /\ call' = [call EXCEPT !.step = "returned",
                          !.result = Str(fullPrompt(call.args[1], call.args[2]))]
  /\ UNCHANGED <<state, storage, cycles, config>>

\* generateImage is called again, with the fullPrompt it made and the same
\* style.
PromptPrefixedAgain ==
  /\ call.fn = "generateImage" /\ call.step = "returned"
  /\ call' = [call EXCEPT !.step = "again", !.args = <<call.result.v, call.args[2]>>,
                          !.result = Str(fullPrompt(call.result.v, call.args[2]))]
  /\ UNCHANGED <<state, storage, cycles, config>>

\* buildStoryPrompt(storyState) returns.
PromptBuilt ==
  /\ call.fn = "buildStoryPrompt" /\ call.step = "called"
  /\ call' = [call EXCEPT !.step = "returned", !.result = Str(buildStoryPrompt(call.args[1]))]
  /\ UNCHANGED <<state, storage, cycles, config>>

NextCall ==
  \/ PromptBuilt
  \/ ParseReturns
  \/ TurnDispatched
  \/ PromptPrefixed
  \/ PromptPrefixedAgain

CallSpec == InitCall /\ [][NextCall]_vars

\* ---------------------------------------------------------------- C26
\* C26: currentChoices has at most 3 entries in every state, and
\* parseResponse returns at most 3 choices on every path (direct parse, field
\* extraction, repaired parse, last resort), however many the text holds.
C26_AtMostThreeChoices ==
  /\ Len(state.currentChoices) <= MAX_CHOICES
  /\ (call.fn = "parseResponse" /\ call.step # "called")
       => Len(call.result.result.choices) <= MAX_CHOICES

\* A text whose object offers four choices was parsed after the repair of its
\* quotes, and the turn dispatched holds three of them.
C26_FourOfferedThreeKept ==
  /\ call.fn = "parseResponse" /\ call.step = "dispatched"
  /\ call.args[1] = RAW_REPAIRABLE
  /\ call.result.stage = "repair"
  /\ Len(state.currentChoices) = MAX_CHOICES

\* ---------------------------------------------------------------- C27
\* C27: parseResponse is total: for every raw text it returns a narrative and
\* an imagePrompt that are strings and choices that are a sequence of
\* strings, and generateStoryContent never fails once a provider has returned
\* text: the turn dispatched for the text carries no error.
C27_ParseIsTotal ==
  /\ (call.fn = "parseResponse" /\ call.step # "called")
       => /\ call.result.result.narrative.t = "str"
          /\ call.result.result.imagePrompt.t = "str"
          /\ \A k \in DOMAIN call.result.result.choices :
               call.result.result.choices[k].t = "str"
  /\ (call.fn = "parseResponse" /\ call.step = "dispatched") => ~truthy(state.error)

\* ---------------------------------------------------------------- C28
\* C28: for every text that no stage can parse (no JSON object, no field to
\* recognise), the empty string and texts made only of braces or quotes
\* included, parseResponse returns the three generic choices and a narrative
\* that is not empty.
C28_GarbageGetsGenericTurn ==
  (call.fn = "parseResponse" /\ call.step # "called" /\ call.args[1] \in GARBAGE)
    => /\ call.result.result.choices = GENERIC_CHOICES
       /\ call.result.result.narrative.t = "str"
       /\ call.result.result.narrative.v # <<>>

\* ---------------------------------------------------------------- C29
\* The record parseResponse returns when it returns rec as it was written.
asParsed(rec) ==
  [narrative |-> Str(rec.narrative), imagePrompt |-> Str(rec.imagePrompt),
   choices |-> [i \in 1..Len(rec.choices) |-> Str(rec.choices[i])]]

\* C29: serializing a well-formed record {narrative, imagePrompt, choices:
\* [a, b, c]} to JSON and parsing it with parseResponse returns the same
\* narrative, imagePrompt and choices by the direct parse, also when the JSON
\* is wrapped in a markdown code fence or surrounded by prose.
C29_ParserRoundTrip ==
  \A rec \in RECORDS, w \in WRAPPERS :
    (/\ Len(rec.choices) = MAX_CHOICES
     /\ call.fn = "parseResponse" /\ call.step # "called"
     /\ call.args[1] = wrapped(w, JSONstringify(rec)))
      => /\ call.result.stage = "direct"
         /\ call.result.result = asParsed(rec)

\* ---------------------------------------------------------------- C30
\* C30: generateImage's style prefixing is idempotent. The fullPrompt it makes
\* begins with the style and is the scene prompt itself when that began with
\* the style, the style, a comma and the scene prompt otherwise; given a
\* fullPrompt it made and the same style, it returns that fullPrompt
\* unchanged.
C30_PrefixingIsIdempotent ==
  /\ (call.fn = "generateImage" /\ call.step # "called")
       => /\ startsWith(call.result.v, call.args[2])
          /\ fullPrompt(call.result.v, call.args[2]) = call.result.v
  /\ (call.fn = "generateImage" /\ call.step = "returned")
       => call.result.v = (IF startsWith(call.args[1], call.args[2]) THEN call.args[1]
                           ELSE call.args[2] \o <<",", SP>> \o call.args[1])
  /\ (call.fn = "generateImage" /\ call.step = "again")
       => call.result.v = call.args[1]

\* The second call of generateImage, given a prompt that begins with the noir
\* style, returned it as it was: the style is there once.
C30_PrefixedOnceOfTwo ==
  /\ call.fn = "generateImage" /\ call.step = "again"
  /\ call.args[2] = <<"Black and white", "film noir">>
  /\ call.result.v = <<"Black and white", "film noir", ",", SP, "a street">>
  /\ call.args[1] = call.result.v

\* ---------------------------------------------------------------- C31
THREE_CHOICES == "3. Provide exactly 3 distinct, meaningful choices for the player."

\* The choices of the JSON format a prompt shows.
NO_CHOICES_SHOWN == <<Q, "choices", Q, ":", SP, "[", "]">>
THREE_CHOICES_SHOWN ==
  <<Q, "choices", Q, ":", SP, "[", Q, "Choice 1 text", Q, ",", SP,
    Q, "Choice 2 text", Q, ",", SP, Q, "Choice 3 text", Q, "]">>

RECURSIVE placeFrom(_, _, _)
placeFrom(s, t, k) ==
  IF k + Len(s) - 1 > Len(t) THEN 0
  ELSE IF SubSeq(t, k, k + Len(s) - 1) = s THEN k
  ELSE placeFrom(s, t, k + 1)

\* The i-th history entry as the prompt is to show it: its heading, its
\* narrative, and its choice when one is recorded.
shownEntry(history, i) ==
  <<"--- Turn ", ToString(i), " ---", NL>> \o history[i].narrative.v
  \o (IF history[i].choiceMade.t = "str" /\ history[i].choiceMade.v # <<>>
        THEN <<NL, NL, "The player chose: ", Q>> \o history[i].choiceMade.v \o <<Q>>
        ELSE <<>>)

IMPORTANT == "**IMPORTANT - The player just chose:** "

\* C32: the prompt renders every history entry, in order and whole, each
\* narrative followed by its recorded choice when there is one; it renders
\* the beginning-of-story marker exactly when the history is empty, and the
\* continuation directive quoting the last choice exactly when the most
\* recent entry has a recorded choice.
C32_WholeHistoryRendered ==
  (call.fn = "buildStoryPrompt" /\ call.step = "returned")
    => /\ \A i \in 1..Len(call.args[1].history) :
            /\ placeFrom(shownEntry(call.args[1].history, i), call.result.v, 1) > 0
            /\ ~truthy(call.args[1].history[i].choiceMade)
                 => ~occursIn(shownEntry(call.args[1].history, i)
                              \o <<NL, NL, "The player chose: ">>, call.result.v)
            /\ i > 1 => placeFrom(shownEntry(call.args[1].history, i - 1), call.result.v, 1)
                           + Len(shownEntry(call.args[1].history, i - 1))
                         <= placeFrom(shownEntry(call.args[1].history, i), call.result.v, 1)
       /\ occursIn(BEGINNING, call.result.v) <=> call.args[1].history = <<>>
       /\ occursIn(<<IMPORTANT>>, call.result.v)
            <=> (/\ call.args[1].history # <<>>
                 /\ truthy(call.args[1].history[Len(call.args[1].history)].choiceMade))
       /\ (call.args[1].history # <<>>
             /\ truthy(call.args[1].history[Len(call.args[1].history)].choiceMade))
            => occursIn(<<IMPORTANT, Q>>
                        \o call.args[1].history[Len(call.args[1].history)].choiceMade.v
                        \o <<Q>>, call.result.v)

\* A prompt built from a history of three turns, each with its choice.
C32_ThreeTurnsRendered ==
  /\ call.fn = "buildStoryPrompt" /\ call.step = "returned"
  /\ Len(call.args[1].history) = 3
  /\ occursIn(<<"--- Turn ", "3", " ---", NL>>, call.result.v)
  /\ occursIn(<<IMPORTANT, Q, "Fight", Q>>, call.result.v)

\* ---------------------------------------------------------------- C33
PACING_LINE == "**Pacing Instruction:** "

\* C33: for every currentTurn in 1..10 the pacing instruction rendered in
\* the prompt is the PACING table's entry for that turn (the climax at 7,
\* the resolution setup at 9, the conclusion at 10); for turn 0 and every
\* turn above 10 the pacing instruction is empty, and the prompt is built
\* all the same.
C33_PacingFollowsTable ==
  (call.fn = "buildStoryPrompt" /\ call.step = "returned")
    => /\ call.result.t = "str"
       /\ occursIn(<<"**Your Task for Turn ", ToString(call.args[1].currentTurn), ":**">>,
                   call.result.v)
       /\ IF call.args[1].currentTurn \in 1..10
            THEN occursIn(<<PACING_LINE>> \o PACING[call.args[1].currentTurn] \o <<NL, NL, BAR>>,
                          call.result.v)
            ELSE occursIn(<<PACING_LINE, NL, NL, BAR>>, call.result.v)
       /\ call.args[1].currentTurn = 7
            => occursIn(<<PACING_LINE, "CLIMAX: This is the turning point!", NL>>, call.result.v)
       /\ call.args[1].currentTurn = 9
            => occursIn(<<PACING_LINE, "Resolution Setup: Tie up loose threads.", NL>>,
                        call.result.v)
       /\ call.args[1].currentTurn = 10
            => occursIn(<<PACING_LINE, "CONCLUSION: Deliver the ending.", NL>>, call.result.v)

\* A prompt built for turn 11, beyond the table, with no pacing instruction.
C33_PromptBeyondTable ==
  /\ call.fn = "buildStoryPrompt" /\ call.step = "returned"
  /\ call.args[1].currentTurn = 11
  /\ occursIn(<<PACING_LINE, NL, NL, BAR>>, call.result.v)

\* ---------------------------------------------------------------- C39
\* C39: the prompt does not depend on the session's language: a session
\* state that differs from the one the prompt was built from only in its
\* language gives the same prompt, and the same state gives the same prompt.
C39_PromptIgnoresLanguage ==
  (call.fn = "buildStoryPrompt" /\ call.step = "returned")
    => \A language \in LANGUAGES :
         Str(buildStoryPrompt([call.args[1] EXCEPT !.language = language])) = call.result

\* A prompt built for a session played in Korean, at a turn the table paces.
C39_PromptOfKoreanSession ==
  /\ call.fn = "buildStoryPrompt" /\ call.step = "returned"
  /\ call.args[1].language = "Korean"
  /\ call.args[1].currentTurn = 2
  /\ call.result = Str(buildStoryPrompt([call.args[1] EXCEPT !.language = "English"]))

\* ---------------------------------------------------------------- C34
\* What the claim says a late result leaves alone.
shown(s) == <<s.gamePhase, s.currentNarrative, s.currentImage, s.currentChoices, s.error>>

\* C34: a generation result is merged only into the session state it was
\* generated from: when the session was reset or a new session was started
\* while a cycle was in flight (the state's style is no longer the one the
\* cycle was started with), whatever that cycle dispatches leaves the phase,
\* narrative, image, choices and error of the current state as they are.
C34_LateResultLeavesStateAlone ==
  \A i \in 1..Len(cycles) :
    cycles[i].artStylePrompt # state.artStylePrompt
      => \A d \in Runs(config, cycles[i]) :
           d.pc = "settled" => shown(gameReducer(state, d.action)) = shown(state)

\* ---------------------------------------------------------------- C35
\* C35: in every reachable state 1 <= currentTurn <= maxTurns, and no
\* choice can be selected once the final turn's content has been produced:
\* where StoryTurn shows choice buttons, the state a click on any of them
\* leads to still has currentTurn <= maxTurns.
C35_TurnWithinLimits ==
  /\ 1 <= state.currentTurn
  /\ state.currentTurn <= state.maxTurns
  /\ state.gamePhase = "playing"
       => \A k \in 1..Len(state.currentChoices) :
            gameReducer(state, [type |-> "MAKE_CHOICE",
                                payload |-> [choiceText |-> state.currentChoices[k]]]).currentTurn
              <= state.maxTurns

\* ---------------------------------------------------------------- C36
\* C36: the player can always advance: whenever the phase is playing, error
\* is null and currentTurn < maxTurns, currentChoices is non-empty, whatever
\* text the provider returned and whichever parser stage made the result.
C36_PlayerCanAdvance ==
  (state.gamePhase = "playing" /\ state.error = Null /\ state.currentTurn < state.maxTurns)
    => state.currentChoices # <<>>

\* ---------------------------------------------------------------- C37
\* C37: when the primary provider times out and the secondary then answers
\* within its own timeout, the caller of the operation receives the
\* secondary's output: the proxy's two per-provider timeouts, one after the
\* other, fit within the client's timeout on the proxy request. So no run of
\* an operation leaves a provider request abandoned: each request ends with
\* the provider's answer or with its own timer, never with the client's timer
\* while the provider may still answer.
C37_TimeoutsFitClientTimeout ==
  \A i \in 1..Len(cycles) :
    \A d \in Runs(config, cycles[i]) :
      \A k \in 1..Len(d.log) :
        Answers(config, cycles[i]) # {} => d.log[k].status # "abandoned"

\* ---------------------------------------------------------------- C38
NO_KEYS == "No API keys configured on server"

\* C38: the proxy handlers answer 500 'No API keys configured on server'
\* only when no provider call was attempted in that request; when a
\* configured provider was called and every called provider failed, the
\* response is the 502 'All ... providers failed' error. So a text operation
\* that ends with the handlers' 'No API keys' message has made no provider
\* request at all.
C38_NoKeysMeansNoneCalled ==
  \A i \in 1..Len(cycles) :
    (config.deployment = "proxy" /\ cycles[i].pc = "start")
      => \A d \in Runs(config, cycles[i]) :
           (/\ d.pc = "settled"
            /\ d.action.type = "SET_ERROR"
            /\ occursIn(<<NO_KEYS>>, d.action.payload.v))
             => \A k \in 1..Len(d.log) : ~attempted(d.log[k])

====
